---- MODULE Spec2Model ----
(***************************************************************************)
(* Model of the sxm-player supervisor loop (mortis_music/cli.py, main) and *)
(* of the status monitor worker (sxm_player/workers/status.py).            *)
(*                                                                         *)
(* Two specifications share the module:                                    *)
(*   StatusSpec  the StatusWorker loop, its probe outcomes and the queue   *)
(*   Spec        the supervisor tick loop, the pool and the workers        *)
(***************************************************************************)
EXTENDS Integers, Sequences, FiniteSets, TLC

(***************************************************************************)
(* Bounds of the model.                                                    *)
(***************************************************************************)
\* loop iterations of the StatusWorker that are explored
MaxIter == 6
\* spawn requests of the supervisor that are explored
MaxSpawns == 4

(***************************************************************************)
(* StatusWorker (status.py)                                                *)
(***************************************************************************)
VARIABLES
    sxm_running,    \* self._state.sxm_running, the guard field of the shared state
    s_delay,        \* self._delay
    s_failures,     \* self._failures
    queue,          \* the event queue: sequence of EventMessage
    s_pc,           \* "loop": iterating, "raised": an exception left loop()
    probes,         \* number of HTTP requests made (requests.get calls)
    log             \* history: one record per loop iteration

svars == <<sxm_running, s_delay, s_failures, queue, s_pc, probes, log>>

\* StatusWorker.NAME
NAME == "status_check"

\* the class attribute defaults _delay = 30.0 and _failures = 0
DelayDefault == 30
FailuresDefault == 0

\* what requests.get can give: a response with a status code and a body, or a
\* raised requests.ConnectionError
Statuses == {200, 404, 500}
Bodies == {"chA", "chB"}
Responses ==
    {[status |-> 200, body |-> b] : b \in Bodies}
        \cup {[status |-> s, body |-> "err"] : s \in Statuses \ {200}}

\* requests.Response.ok: raise_for_status() does not raise, i.e. status < 400
ok(r) == r.status < 400

\* r.json()
json(r) == r.body

EventMessage(src, kind, payload) == [source |-> src, kind |-> kind, payload |-> payload]

\* self.push_event(msg)
push_event(q, msg) == Append(q, msg)

\* the branch "if not r.ok" of check_sxm, on fields d (_delay), f (_failures), q (queue)
OnFailureLate(d, f, q) ==
    [delay |-> 5, failures |-> f + 1,
     queue |-> IF f + 1 > 4
               THEN push_event(q, EventMessage(NAME, "RESET_SXM", "bad status check"))
               ELSE q]

OnFailureEarly(d, f, q) ==
    [delay |-> 5, failures |-> f + 1,
     queue |-> IF f + 1 >= 3
               THEN push_event(q, EventMessage(NAME, "RESET_SXM", "bad status check"))
               ELSE q]

OnFailureKeepDelay(d, f, q) ==
    [delay |-> d, failures |-> f + 1,
     queue |-> IF f + 1 > 3
               THEN push_event(q, EventMessage(NAME, "RESET_SXM", "bad status check"))
               ELSE q]

OnFailure(d, f, q) ==
    [delay |-> 5, failures |-> f + 1,
     queue |-> IF f + 1 > 3
               THEN push_event(q, EventMessage(NAME, "RESET_SXM", "bad status check"))
               ELSE q]

\* the "else" branch of check_sxm
OnSuccessNoPush(d, f, q, r) == [delay |-> 30, failures |-> 0, queue |-> q]

OnSuccessKeepFailures(d, f, q, r) ==
    [delay |-> 30, failures |-> f,
     queue |-> push_event(q, EventMessage(NAME, "UPDATE_CHANNELS", json(r)))]

OnSuccess(d, f, q, r) ==
    [delay |-> 30, failures |-> 0,
     queue |-> push_event(q, EventMessage(NAME, "UPDATE_CHANNELS", json(r)))]

\* the guard of check_sxm
GuardAlways(running) == TRUE

Guard(running) == running

\* history record of one loop iteration: the guard field as read, what the
\* probe gave ("skip": no probe, "response", "raise") and the fields afterwards
NoResponse == [status |-> 0, body |-> "none"]

LogEntry(guard, kind, resp, f, d, q, n) ==
    [guard |-> guard, kind |-> kind, resp |-> resp, failures |-> f, delay |-> d,
     qlen |-> Len(q), probes |-> n]

\* one loop iteration with the guard false: nothing but the sleep
CheckSkip ==
    /\ s_pc = "loop"
    /\ Len(log) < MaxIter
    /\ ~Guard(sxm_running)
    /\ log' = Append(log, LogEntry(sxm_running, "skip", NoResponse, s_failures, s_delay,
                                   queue, probes))
    /\ UNCHANGED <<sxm_running, s_delay, s_failures, queue, s_pc, probes>>

\* one loop iteration with the guard true and a response received
CheckResponse ==
    /\ s_pc = "loop"
    /\ Len(log) < MaxIter
    /\ Guard(sxm_running)
    /\ \E r \in Responses :
         LET n == IF ~ok(r) THEN OnFailure(s_delay, s_failures, queue)
                  ELSE OnSuccess(s_delay, s_failures, queue, r)
         IN /\ s_delay' = n.delay
            /\ s_failures' = n.failures
            /\ queue' = n.queue
            /\ log' = Append(log, LogEntry(sxm_running, "response", r, n.failures, n.delay,
                                       n.queue, probes + 1))
    /\ probes' = probes + 1
    /\ UNCHANGED <<sxm_running, s_pc>>

\* one loop iteration with the guard true in which requests.get raises: nothing
\* in check_sxm or loop catches it
CheckRaises ==
    /\ s_pc = "loop"
    /\ Len(log) < MaxIter
    /\ Guard(sxm_running)
    /\ probes' = probes + 1
    /\ s_pc' = "raised"
    /\ log' = Append(log, LogEntry(sxm_running, "raise", NoResponse, s_failures, s_delay,
                                   queue, probes + 1))
    /\ UNCHANGED <<sxm_running, s_delay, s_failures, queue>>

\* another worker writes the guard field of the shared state
SetSxmRunning ==
    /\ s_pc = "loop"
    /\ Len(log) < MaxIter
    /\ sxm_running' = ~sxm_running
    /\ UNCHANGED <<s_delay, s_failures, queue, s_pc, probes, log>>

StatusInitWith(G) ==
    /\ sxm_running \in G
    /\ s_delay = DelayDefault
    /\ s_failures = FailuresDefault
    /\ queue = <<>>
    /\ s_pc = "loop"
    /\ probes = 0
    /\ log = <<>>

(***************************************************************************)
(* Supervisor (cli.py, main)                                               *)
(***************************************************************************)
VARIABLES
    output_folder,      \* the --output-folder option: "None" or a path
    active_channel_id,  \* state.active_channel_id: "None" or a channel id
    runners,            \* state.runners: worker name -> NoKey, None or a pid
    procs,              \* every spawn request so far; the pid is the index
    pool,               \* the Pool: "open", "closed", "terminated", "joined"
    pc,                 \* where main is: a worker name, "active", "sleep",
                        \* "close", "terminate", "join", "exit"
    phase,              \* inside is_running: "try" or "except"
    delay,              \* the local delay of the tick, in milliseconds
    tickBase,           \* history: number of spawn requests before this tick
    seen,               \* history: what each probe of this tick found
    hlsRead,            \* history: active_channel_id as read in this tick
    shutlog,            \* history: the pool calls of the shutdown, in order
    exc                 \* the exception that left the while loop, or "none"

mvars == <<output_folder, active_channel_id, runners, procs, pool, pc, phase, delay,
           tickBase, seen, hlsRead, shutlog, exc>>

vars == <<svars, mvars>>

Names == {"server", "bot", "archiver", "processor", "hls"}

\* runners has no key for the name / holds None for it (pids are 1, 2, ...)
NoKey == -1
None == 0

\* delay = 0.1 and delay = 5, in milliseconds
DelayTight == 100
DelaySettle == 5000

\* process_count
process_count_always_five(folder) == 5

process_count_always_three(folder) == 3

process_count(folder) == IF folder # "None" THEN 5 ELSE 3

Pids == 1..Len(procs)

\* the process exists (started and not exited)
Alive(ps, p) == p \in 1..Len(ps) /\ ps[p].st \in {"setup", "running"}

\* state.runners[name] followed by os.kill(pid, 0): what it raises, or "ok"
os_kill(ps, v) ==
    IF v = NoKey THEN "KeyError"
    ELSE IF v = None THEN "TypeError"
    ELSE IF ~Alive(ps, v) THEN "ProcessLookupError"
    ELSE "ok"

\* is_running: True when the try block returns, False when one of KeyError,
\* TypeError, ProcessLookupError is caught
is_running_any_pid(ps, v) == v \notin {NoKey, None}

is_running(ps, v) == os_kill(ps, v) = "ok"

\* state.set_runner(name, value)
set_runner(r, name, value) == [r EXCEPT ![name] = value]

\* the except block of is_running
is_running_except_keeps(r, name) == r

is_running_except_clears_all(r, name) == [n \in DOMAIN r |-> None]

is_running_except(r, name) == set_runner(r, name, None)

\* spawn_process: pool.apply_async(run, (cls, ...)) queues one task
spawn_process_twice(ps, name) ==
    Append(Append(ps, [name |-> name, st |-> "queued"]), [name |-> name, st |-> "queued"])

spawn_process(ps, name) == Append(ps, [name |-> name, st |-> "queued"])

\* the delay after a spawn
delay_after_spawn_tight(d) == DelayTight

delay_after_spawn(d) == DelaySettle

\* the statement after the block of name in the tick
NextPc_always_archive(name, folder) ==
    CASE name = "server" -> "bot"
      [] name = "bot" -> "archiver"
      [] name = "archiver" -> "processor"
      [] name = "processor" -> "active"
      [] name = "hls" -> "sleep"

NextPc(name, folder) ==
    CASE name = "server" -> "bot"
      [] name = "bot" -> IF folder # "None" THEN "archiver" ELSE "active"
      [] name = "archiver" -> "processor"
      [] name = "processor" -> "active"
      [] name = "hls" -> "sleep"

\* what a probe finds, read off the state, for the history
Classify(ps, v) ==
    IF v = NoKey THEN "nokey"
    ELSE IF v = None THEN "none"
    ELSE IF Alive(ps, v) THEN "alive" ELSE "dead"

InLoop == pc \in Names \cup {"active", "sleep"}

\* where main goes when exception e leaves the while loop: "except
\* KeyboardInterrupt: pass" or no handler, and in both cases the finally block
after_exception_no_finally(e) == IF e = "KeyboardInterrupt" THEN "close" ELSE "exit"

after_exception(e) == "close"

\* the spawn requests submitted in this tick for a name
SpawnedInTick(name) == {p \in (tickBase + 1)..Len(procs) : procs[p].name = name}

\* the try block of is_running(name): read state.runners[name], os.kill(pid, 0)
IsRunningTry(name) ==
    /\ pc = name
    /\ phase = "try"
    /\ seen' = [seen EXCEPT ![name] = Classify(procs, runners[name])]
    /\ IF is_running(procs, runners[name])
       THEN pc' = NextPc(name, output_folder) /\ phase' = "try"
       ELSE pc' = pc /\ phase' = "except"
    /\ UNCHANGED <<output_folder, active_channel_id, runners, procs, pool, delay,
                   tickBase, hlsRead, shutlog, exc>>

\* the except block of is_running(name), which returns False, then the body of
\* "if not is_running(name)": spawn_process(...) and delay = 5
IsRunningExceptAndSpawn(name) ==
    /\ pc = name
    /\ phase = "except"
    /\ Len(procs) < MaxSpawns
    /\ runners' = is_running_except(runners, name)
    /\ procs' = spawn_process(procs, name)
    /\ delay' = delay_after_spawn(delay)
    /\ pc' = NextPc(name, output_folder)
    /\ phase' = "try"
    /\ UNCHANGED <<output_folder, active_channel_id, pool, tickBase, seen, hlsRead,
                   shutlog, exc>>

\* "if state.active_channel_id is not None"
ReadActiveChannel ==
    /\ pc = "active"
    /\ hlsRead' = active_channel_id
    /\ pc' = IF active_channel_id # "None" THEN "hls" ELSE "sleep"
    /\ UNCHANGED <<output_folder, active_channel_id, runners, procs, pool, phase, delay,
                   tickBase, seen, shutlog, exc>>

\* time.sleep(delay), then the top of the next tick: delay = 0.1
Sleep ==
    /\ pc = "sleep"
    /\ pc' = "server"
    /\ delay' = DelayTight
    /\ tickBase' = Len(procs)
    /\ seen' = [n \in Names |-> "unprobed"]
    /\ hlsRead' = "unread"
    /\ UNCHANGED <<output_folder, active_channel_id, runners, procs, pool, phase,
                   shutlog, exc>>

\* KeyboardInterrupt anywhere in the try block: "except KeyboardInterrupt: pass"
\* and on to the finally block
Interrupt ==
    /\ InLoop
    /\ exc' = "KeyboardInterrupt"
    /\ pc' = after_exception("KeyboardInterrupt")
    /\ phase' = "try"
    /\ UNCHANGED <<output_folder, active_channel_id, runners, procs, pool, delay,
                   tickBase, seen, hlsRead, shutlog>>

\* any other exception raised by a statement of the tick (the manager proxy
\* behind state.runners / state.active_channel_id, os.kill, pool.apply_async):
\* no except clause matches, the finally block runs and the exception goes on
TickRaises ==
    /\ InLoop
    /\ exc' = "Exception"
    /\ pc' = after_exception("Exception")
    /\ phase' = "try"
    /\ UNCHANGED <<output_folder, active_channel_id, runners, procs, pool, delay,
                   tickBase, seen, hlsRead, shutlog>>

\* pool.close(): no new submissions; queued tasks still start
PoolClose ==
    /\ pc = "close"
    /\ pool' = "closed"
    /\ shutlog' = Append(shutlog, "close")
    /\ pc' = "terminate"
    /\ UNCHANGED <<output_folder, active_channel_id, runners, procs, phase, delay,
                   tickBase, seen, hlsRead, exc>>

\* what pool.terminate() does to one process: queued tasks are dropped, the
\* worker processes are stopped
terminate_skipped(st) == st

terminate(st) ==
    IF st = "queued" THEN "dropped"
    ELSE IF st \in {"setup", "running"} THEN "terminated"
    ELSE st

\* pool.terminate()
PoolTerminate ==
    /\ pc = "terminate"
    /\ procs' = [p \in 1..Len(procs) |-> [procs[p] EXCEPT !.st = terminate(@)]]
    /\ pool' = "terminated"
    /\ shutlog' = Append(shutlog, "terminate")
    /\ pc' = "join"
    /\ UNCHANGED <<output_folder, active_channel_id, runners, phase, delay,
                   tickBase, seen, hlsRead, exc>>

\* pool.join(), and main returns
PoolJoin ==
    /\ pc = "join"
    /\ pool' = "joined"
    /\ shutlog' = Append(shutlog, "join")
    /\ pc' = "exit"
    /\ UNCHANGED <<output_folder, active_channel_id, runners, procs, phase, delay,
                   tickBase, seen, hlsRead, exc>>

\* the number of pool processes that run a task
Running(ps) == Cardinality({p \in 1..Len(ps) : ps[p].st \in {"setup", "running"}})

\* a pool process takes the oldest queued task and runs it: the worker starts
PoolStart(p) ==
    /\ pool \in {"open", "closed"}
    /\ p \in Pids
    /\ procs[p].st = "queued"
    /\ \A q \in 1..(p - 1) : procs[q].st # "queued"
    /\ Running(procs) < process_count(output_folder)
    /\ procs' = [procs EXCEPT ![p].st = "setup"]
    /\ UNCHANGED <<output_folder, active_channel_id, runners, pool, pc, phase, delay,
                   tickBase, seen, hlsRead, shutlog, exc>>

\* the started worker records its own pid: state.set_runner(name, os.getpid())
WorkerRecord(p) ==
    /\ p \in Pids
    /\ procs[p].st = "setup"
    /\ runners' = set_runner(runners, procs[p].name, p)
    /\ procs' = [procs EXCEPT ![p].st = "running"]
    /\ UNCHANGED <<output_folder, active_channel_id, pool, pc, phase, delay,
                   tickBase, seen, hlsRead, shutlog, exc>>

\* a worker process exits (stopped or crashed), during setup or later
WorkerDie(p) ==
    /\ p \in Pids
    /\ procs[p].st \in {"setup", "running"}
    /\ procs' = [procs EXCEPT ![p].st = "dead"]
    /\ UNCHANGED <<output_folder, active_channel_id, runners, pool, pc, phase, delay,
                   tickBase, seen, hlsRead, shutlog, exc>>

\* a worker writes state.active_channel_id
SetActiveChannel ==
    /\ pc # "exit"
    /\ active_channel_id' = IF active_channel_id = "None" THEN "ch1" ELSE "None"
    /\ UNCHANGED <<output_folder, runners, procs, pool, pc, phase, delay,
                   tickBase, seen, hlsRead, shutlog, exc>>

MainInit ==
    /\ output_folder \in {"None", "out"}
    /\ active_channel_id = "None"
    /\ runners = [n \in Names |-> NoKey]
    /\ procs = <<>>
    /\ pool = "open"
    /\ pc = "server"
    /\ phase = "try"
    /\ delay = DelayTight
    /\ tickBase = 0
    /\ seen = [n \in Names |-> "unprobed"]
    /\ hlsRead = "unread"
    /\ shutlog = <<>>
    /\ exc = "none"

(***************************************************************************)
(* The specifications                                                      *)
(***************************************************************************)
\* the supervisor, its pool and its workers
Init == MainInit /\ StatusInitWith({FALSE})
Next ==
    \/ \E name \in Names : IsRunningTry(name) /\ UNCHANGED svars
    \/ \E name \in Names : IsRunningExceptAndSpawn(name) /\ UNCHANGED svars
    \/ ReadActiveChannel /\ UNCHANGED svars
    \/ Sleep /\ UNCHANGED svars
    \/ Interrupt /\ UNCHANGED svars
    \/ TickRaises /\ UNCHANGED svars
    \/ PoolClose /\ UNCHANGED svars
    \/ PoolTerminate /\ UNCHANGED svars
    \/ PoolJoin /\ UNCHANGED svars
    \/ \E p \in 1..MaxSpawns : PoolStart(p) /\ UNCHANGED svars
    \/ \E p \in 1..MaxSpawns : WorkerRecord(p) /\ UNCHANGED svars
    \/ \E p \in 1..MaxSpawns : WorkerDie(p) /\ UNCHANGED svars
    \/ SetActiveChannel /\ UNCHANGED svars
Spec == Init /\ [][Next]_vars

\* the steps of the tick loop itself; main is one thread that keeps running
\* until an exception leaves the loop, so a tick step that stays possible is
\* eventually taken
Tick ==
    \/ \E name \in Names : IsRunningTry(name)
    \/ \E name \in Names : IsRunningExceptAndSpawn(name)
    \/ ReadActiveChannel
    \/ Sleep

\* the supervisor while no exception leaves the loop
LiveNext ==
    \/ \E name \in Names : IsRunningTry(name) /\ UNCHANGED svars
    \/ \E name \in Names : IsRunningExceptAndSpawn(name) /\ UNCHANGED svars
    \/ ReadActiveChannel /\ UNCHANGED svars
    \/ Sleep /\ UNCHANGED svars
    \/ \E p \in 1..MaxSpawns : PoolStart(p) /\ UNCHANGED svars
    \/ \E p \in 1..MaxSpawns : WorkerRecord(p) /\ UNCHANGED svars
    \/ \E p \in 1..MaxSpawns : WorkerDie(p) /\ UNCHANGED svars
    \/ SetActiveChannel /\ UNCHANGED svars

FairSpec == Init /\ [][LiveNext]_vars /\ WF_vars(Tick /\ UNCHANGED svars)

\* the StatusWorker
StatusInit == StatusInitWith(BOOLEAN) /\ MainInit
StatusStep ==
    \/ CheckSkip /\ UNCHANGED mvars
    \/ CheckResponse /\ UNCHANGED mvars
    \/ CheckRaises /\ UNCHANGED mvars
    \/ SetSxmRunning /\ UNCHANGED mvars
StatusSpec == StatusInit /\ [][StatusStep]_vars

(***************************************************************************)
(* Reading the history of the StatusWorker                                 *)
(***************************************************************************)
Iters == 1..Len(log)

\* iteration i made a probe that returned a response which is not ok
Failed(i) == log[i].kind = "response" /\ ~ok(log[i].resp)

\* iteration i made a probe that returned an ok response
Succeeded(i) == log[i].kind = "response" /\ ok(log[i].resp)

\* the fields before iteration i
PrevFailures(i) == IF i = 1 THEN FailuresDefault ELSE log[i - 1].failures
PrevDelay(i) == IF i = 1 THEN DelayDefault ELSE log[i - 1].delay
PrevQlen(i) == IF i = 1 THEN 0 ELSE log[i - 1].qlen
PrevProbes(i) == IF i = 1 THEN 0 ELSE log[i - 1].probes

\* the events pushed by iteration i, and how many of them are of kind k
EventsAt(i) == SubSeq(queue, PrevQlen(i) + 1, log[i].qlen)
KindAt(i, k) == Cardinality({j \in 1..Len(EventsAt(i)) : EventsAt(i)[j].kind = k})

\* the length of the streak of consecutive failed probes that ends with
\* iteration i (iterations without a response are no probes and do not count)
RECURSIVE StreakAt(_)
StreakAt(i) ==
    IF i = 0 THEN 0
    ELSE IF Failed(i) THEN 1 + StreakAt(i - 1)
    ELSE IF Succeeded(i) THEN 0
    ELSE StreakAt(i - 1)

\* the number of RESET_SXM events pushed during that streak
RECURSIVE StreakResets(_)
StreakResets(i) ==
    IF i = 0 THEN 0
    ELSE IF Succeeded(i) THEN 0
    ELSE KindAt(i, "RESET_SXM") + StreakResets(i - 1)

Max(a, b) == IF a >= b THEN a ELSE b

\* the iterations that received a response, in order
ProbeLog == SelectSeq(log, LAMBDA e : e.kind = "response")

(***************************************************************************)
(* C3: a RESET_SXM event is pushed on the 4th consecutive failed probe     *)
(* and exactly one on every later consecutive failed probe, so that a      *)
(* streak of n failed probes has pushed max(0, n - 3) reset events.        *)
(***************************************************************************)
C3_ResetOnFourthAndLater ==
    \A i \in Iters :
        Failed(i) =>
            /\ KindAt(i, "RESET_SXM") = (IF StreakAt(i) >= 4 THEN 1 ELSE 0)
            /\ Len(EventsAt(i)) = KindAt(i, "RESET_SXM")
            /\ StreakResets(i) = Max(0, StreakAt(i) - 3)

C3_Witness ==
    \E i \in Iters : Failed(i) /\ StreakAt(i) = 5 /\ StreakResets(i) = 2

(***************************************************************************)
(* C4: an ok probe sets the interval to 30 and the failure counter to 0 in *)
(* the same iteration, whatever both were before.                          *)
(***************************************************************************)
C4_SuccessResets ==
    /\ \A i \in Iters : Succeeded(i) => log[i].delay = 30 /\ log[i].failures = 0
    /\ (Len(log) > 0 /\ Succeeded(Len(log))) => s_delay = 30 /\ s_failures = 0

C4_Witness ==
    /\ Len(log) > 1
    /\ Succeeded(Len(log))
    /\ PrevFailures(Len(log)) = 4
    /\ PrevDelay(Len(log)) = 5
    /\ s_failures = 0
    /\ s_delay = 30

(***************************************************************************)
(* C5: the failure counter is the length of the current streak of failed   *)
(* probes, a failure that leaves the counter at 3 or less pushes no        *)
(* RESET_SXM, and fail, fail, fail, ok gives the counters 1, 2, 3, 0 and   *)
(* no RESET_SXM at all.                                                    *)
(***************************************************************************)
ThreeFailuresThenSuccess ==
    /\ Len(ProbeLog) = 4
    /\ \A j \in 1..3 : ~ok(ProbeLog[j].resp)
    /\ ok(ProbeLog[4].resp)

C5_CounterIsStreak ==
    /\ s_failures = StreakAt(Len(log))
    /\ \A i \in Iters : log[i].failures = StreakAt(i)
    /\ \A i \in Iters : (Failed(i) /\ log[i].failures <= 3) => KindAt(i, "RESET_SXM") = 0
    /\ ThreeFailuresThenSuccess =>
          /\ [j \in 1..4 |-> ProbeLog[j].failures] = <<1, 2, 3, 0>>
          /\ \A j \in 1..Len(queue) : queue[j].kind # "RESET_SXM"

C5_Witness ==
    /\ ThreeFailuresThenSuccess
    /\ s_pc = "loop"
    /\ s_failures = 0

(***************************************************************************)
(* C6: every non-success status and every network error of the probe is    *)
(* handled as a failed probe (interval 5, counter incremented) and no       *)
(* exception leaves the loop iteration.                                     *)
(***************************************************************************)
C6_EveryFailureHandled ==
    /\ s_pc # "raised"
    /\ \A i \in Iters :
          (Failed(i) \/ log[i].kind = "raise") =>
              log[i].delay = 5 /\ log[i].failures = PrevFailures(i) + 1

(***************************************************************************)
(* C9: an iteration that reads the guard sxm_running as false makes no      *)
(* probe, pushes no event and leaves the counter and the interval as they  *)
(* were.                                                                   *)
(***************************************************************************)
C9_GuardFalseNoOp ==
    \A i \in Iters :
        ~log[i].guard =>
            /\ log[i].probes = PrevProbes(i)
            /\ log[i].qlen = PrevQlen(i)
            /\ log[i].failures = PrevFailures(i)
            /\ log[i].delay = PrevDelay(i)

C9_Witness ==
    \E i \in Iters : ~log[i].guard /\ PrevFailures(i) = 4 /\ PrevDelay(i) = 5 /\ PrevQlen(i) = 1

(***************************************************************************)
(* Reading the state of the supervisor                                     *)
(***************************************************************************)
AbsentClasses == {"nokey", "none", "dead"}

\* the probe of name in this tick has been made and has returned
Probed(name) == seen[name] # "unprobed" /\ ~(pc = name /\ phase = "except")

\* the worker names the tick requires, by the configuration and by what the
\* tick read of active_channel_id
Required ==
    {"server", "bot"}
        \cup (IF output_folder # "None" THEN {"archiver", "processor"} ELSE {})
        \cup (IF hlsRead \notin {"unread", "None"} THEN {"hls"} ELSE {})

\* the processes of a name that exist
Live(name) == {p \in Pids : procs[p].name = name /\ Alive(procs, p)}

(***************************************************************************)
(* C1: in a tick, a required worker name gets a spawn request if and only  *)
(* if its probe found no key, None or the pid of a process that does not   *)
(* exist; at the sleep of the tick every required name has been probed.    *)
(***************************************************************************)
C1_SpawnIffAbsent ==
    InLoop =>
        /\ \A n \in Required :
              Probed(n) => (SpawnedInTick(n) # {} <=> seen[n] \in AbsentClasses)
        /\ pc = "sleep" => \A n \in Required : Probed(n)

C1_Witness ==
    /\ pc = "sleep"
    /\ seen["server"] = "alive" /\ SpawnedInTick("server") = {}
    /\ seen["bot"] = "dead" /\ SpawnedInTick("bot") # {}
    /\ seen["hls"] = "nokey" /\ SpawnedInTick("hls") # {}

(***************************************************************************)
(* C2: no worker name ever has two processes alive at the same time.       *)
(***************************************************************************)
C2_OneLiveProcessPerName == \A n \in Names : Cardinality(Live(n)) <= 1

(***************************************************************************)
(* C7: the tick sleeps 5 s when it submitted a spawn request and 0.1 s     *)
(* when it did not; with server and bot the only required workers: both    *)
(* absent, both spawned and 5 s; only bot absent, only bot spawned and     *)
(* 5 s; both alive, 0.1 s.                                                 *)
(***************************************************************************)
OnlyServerAndBot == Required = {"server", "bot"}

C7_DelayBySpawn ==
    pc = "sleep" =>
        /\ delay = (IF tickBase < Len(procs) THEN DelaySettle ELSE DelayTight)
        /\ (OnlyServerAndBot /\ seen["server"] \in AbsentClasses
                /\ seen["bot"] \in AbsentClasses) =>
              /\ delay = DelaySettle
              /\ [p \in 1..(Len(procs) - tickBase) |-> procs[tickBase + p].name]
                     = <<"server", "bot">>
        /\ (OnlyServerAndBot /\ seen["server"] = "alive"
                /\ seen["bot"] \in AbsentClasses) =>
              /\ delay = DelaySettle
              /\ [p \in 1..(Len(procs) - tickBase) |-> procs[tickBase + p].name]
                     = <<"bot">>
        /\ (OnlyServerAndBot /\ seen["server"] = "alive" /\ seen["bot"] = "alive") =>
              /\ delay = DelayTight
              /\ tickBase = Len(procs)

\* the third tick of the scenario: server from the first tick, the bot of the
\* first tick gone, the bot of the second tick alive, nothing to spawn
C7_Witness ==
    /\ pc = "sleep"
    /\ OnlyServerAndBot
    /\ delay = DelayTight
    /\ Len(procs) = 3
    /\ procs[1] = [name |-> "server", st |-> "running"]
    /\ procs[2] = [name |-> "bot", st |-> "dead"]
    /\ procs[3] = [name |-> "bot", st |-> "running"]

(***************************************************************************)
(* C8: once the interrupt has arrived no spawn request is submitted and    *)
(* the loop is not entered again; the shutdown steps are never blocked;    *)
(* when main exits the pool was closed, terminated and joined in that      *)
(* order and no worker process exists or waits to be started.              *)
(***************************************************************************)
ShutdownPcs == {"close", "terminate", "join"}

C8_Shutdown ==
    /\ [][~InLoop => (Len(procs') = Len(procs) /\ ~InLoop')]_vars
    /\ [](pc \in ShutdownPcs =>
             ENABLED ((PoolClose \/ PoolTerminate \/ PoolJoin) /\ UNCHANGED svars))
    /\ [](pc = "exit" =>
             /\ shutlog = <<"close", "terminate", "join">>
             /\ pool = "joined"
             /\ \A p \in Pids : procs[p].st \in {"dead", "terminated", "dropped"})

\* the interrupt came with two workers recorded alive and one still setting up
C8_Witness ==
    /\ pc = "exit"
    /\ Cardinality({p \in Pids : procs[p].st = "terminated"}) = 3
    /\ Cardinality({n \in Names : runners[n] \in Pids
                                    /\ procs[runners[n]].st = "terminated"}) = 2

(***************************************************************************)
(* C10: a probe that finds no key, None or a pid without a process goes    *)
(* to the except block, which leaves runners[name] = None and returns      *)
(* not-alive (the spawn follows); a probe that finds the process returns   *)
(* alive and leaves runners as it was.                                     *)
(***************************************************************************)
TryStep(n) == pc = n /\ phase = "try" /\ pc' # "close" /\ <<pc, phase>>' # <<pc, phase>>

ExceptStep(n) == pc = n /\ phase = "except" /\ pc' # "close" /\ <<pc, phase>>' # <<pc, phase>>

C10_ProbeClears ==
    [][\A n \in Names :
          /\ TryStep(n) =>
                IF Classify(procs, runners[n]) = "alive"
                THEN pc' = NextPc(n, output_folder) /\ phase' = "try" /\ runners' = runners
                        /\ procs' = procs
                ELSE pc' = n /\ phase' = "except"
          /\ ExceptStep(n) =>
                /\ runners'[n] = None
                /\ pc' = NextPc(n, output_folder)
                /\ Len(procs') = Len(procs) + 1
                /\ procs'[Len(procs')].name = n]_vars

\* the probe of server found the pid of a process that is gone and cleared it
C10_Witness ==
    /\ pc = "bot"
    /\ seen["server"] = "dead"
    /\ runners["server"] = None

C16_DelayFollowsCounter ==
    /\ s_delay \in {5, 30}
    /\ s_delay = 5 <=> s_failures > 0
    /\ s_delay = 30 <=> s_failures = 0
    /\ \A i \in Iters : log[i].delay = 5 <=> log[i].failures > 0

\* a guard-false iteration in the middle of a streak, and one after a recovery
C16_Witness ==
    /\ \E i \in Iters : ~log[i].guard /\ log[i].delay = 5 /\ log[i].failures = 2
    /\ \E i \in Iters : ~log[i].guard /\ log[i].delay = 30 /\ PrevFailures(i) = 0 /\ i > 1

(***************************************************************************)
(* C13: the processes running at the same time never exceed the pool size, *)
(* 3 without an output folder and 5 with one; a queued spawn request stays  *)
(* queued until it is started, which needs a free pool process, and it is   *)
(* only dropped by pool.terminate().                                        *)
(***************************************************************************)
PoolSize == IF output_folder = "None" THEN 3 ELSE 5

Queued == {p \in Pids : procs[p].st = "queued"}

C14_OncePerTick ==
    /\ [](\A n \in Names : Cardinality(SpawnedInTick(n)) <= 1)
    /\ [][\A n \in Names : TryStep(n) => seen[n] = "unprobed"]_vars
    /\ [][Len(procs') # Len(procs) =>
              /\ pc \in Names /\ phase = "except" /\ pc' # "server"
              /\ procs' = Append(procs, [name |-> pc, st |-> "queued"])]_vars
    /\ [][(pc = "sleep" /\ pc' # "sleep" /\ exc' = exc) =>
              /\ pc' = "server"
              /\ procs' = procs
              /\ tickBase' = Len(procs)]_vars

\* three requests submitted in one tick, before its sleep
C14_Witness ==
    /\ pc = "sleep"
    /\ [p \in 1..(Len(procs) - tickBase) |-> procs[tickBase + p].name]
           = <<"server", "bot", "hls">>

(***************************************************************************)
(* C15: without an output folder archiver and processor are never probed   *)
(* or spawned; hls is probed or spawned in a tick only if that tick read   *)
(* active_channel_id as not None.                                          *)
(***************************************************************************)
C15_NotRequiredNotTouched ==
    /\ output_folder = "None" =>
          /\ \A p \in Pids : procs[p].name \notin {"archiver", "processor"}
          /\ seen["archiver"] = "unprobed" /\ seen["processor"] = "unprobed"
          /\ pc \notin {"archiver", "processor"}
    /\ (pc = "hls" \/ seen["hls"] # "unprobed" \/ SpawnedInTick("hls") # {}) =>
          hlsRead \notin {"unread", "None"}

\* hls spawned on what the tick read, although the field is None again by now
C15_Witness ==
    /\ output_folder = "None"
    /\ pc = "sleep"
    /\ SpawnedInTick("hls") # {}
    /\ hlsRead = "ch1"
    /\ active_channel_id = "None"

(***************************************************************************)
(* C17: the names that can be required together are never more than the    *)
(* pool has processes, and only they are spawned; so whenever every name   *)
(* has at most one outstanding process or request, a queued request finds  *)
(* a free pool process.                                                    *)
(***************************************************************************)
MaxRequired ==
    {"server", "bot", "hls"}
        \cup (IF output_folder # "None" THEN {"archiver", "processor"} ELSE {})

Outstanding(n) ==
    {p \in Pids : procs[p].name = n /\ procs[p].st \in {"queued", "setup", "running"}}

C17_NoWaiting ==
    /\ Cardinality(MaxRequired) <= process_count(output_folder)
    /\ \A p \in Pids : procs[p].name \in MaxRequired
    /\ ((\A n \in Names : Cardinality(Outstanding(n)) <= 1) /\ Queued # {}) =>
          Running(procs) < process_count(output_folder)

\* four names outstanding at once with an output folder, one request per name
C17_Witness ==
    /\ output_folder = "out"
    /\ \A n \in Names : Cardinality(Outstanding(n)) <= 1
    /\ Running(procs) = 3
    /\ Queued # {}

(***************************************************************************)
(* C18: a step of the supervisor changes runners only in the except block  *)
(* of the probe, only at the probed name and only to None; every pid in    *)
(* runners is the pid of a worker of that name that recorded it.           *)
(***************************************************************************)
C18_SupervisorWrites ==
    /\ [][<<pc, phase>>' # <<pc, phase>> =>
              \A m \in Names :
                  runners'[m] # runners[m] =>
                      m = pc /\ phase = "except" /\ runners'[m] = None]_vars
    /\ [](\A n \in Names :
              runners[n] \notin {NoKey, None} =>
                  /\ runners[n] \in Pids
                  /\ procs[runners[n]].name = n
                  /\ procs[runners[n]].st \in {"running", "dead", "terminated"})

\* the probe of bot cleared a dead pid while the entry of server holds a pid
C18_Witness ==
    /\ pc = "sleep"
    /\ seen["bot"] = "dead"
    /\ runners["bot"] = None
    /\ runners["server"] \in Pids

(***************************************************************************)
(* C19: the while loop is only left into the finally block, by the         *)
(* interrupt as by any other exception; the block calls close, terminate   *)
(* and join in that order, is never blocked, and main ends after it.       *)
(***************************************************************************)
ShutdownOrder == <<"close", "terminate", "join">>

C19_FinallyAlwaysRuns ==
    /\ [][(InLoop /\ ~InLoop') => (pc' = "close" /\ exc' # "none" /\ shutlog' = <<>>)]_vars
    /\ [](Len(shutlog) <= 3 /\ shutlog = SubSeq(ShutdownOrder, 1, Len(shutlog)))
    /\ [](exc # "none" <=> ~InLoop)
    /\ [](pc \in ShutdownPcs =>
             ENABLED ((PoolClose \/ PoolTerminate \/ PoolJoin) /\ UNCHANGED svars))
    /\ [](pc = "exit" => shutlog = ShutdownOrder)

\* main has ended after an exception other than the interrupt, workers stopped
C19_Witness ==
    /\ pc = "exit"
    /\ exc = "Exception"
    /\ shutlog = ShutdownOrder
    /\ \E p \in Pids : procs[p].st = "terminated"

(***************************************************************************)
(* C12: when the processes of a required worker name have died and none is *)
(* left or requested, then, as long as the supervisor keeps ticking, a     *)
(* spawn request for the name is submitted in a tick; this repeats on      *)
(* every death, up to the number of spawn requests explored.               *)
(***************************************************************************)
RequiredNow(n) ==
    \/ n \in {"server", "bot"}
    \/ n \in {"archiver", "processor"} /\ output_folder # "None"
    \/ n = "hls" /\ active_channel_id # "None"

Died(n) == {p \in Pids : procs[p].name = n /\ procs[p].st = "dead"}

C12_RespawnEventually ==
    \A n \in Names :
        (InLoop /\ RequiredNow(n) /\ Died(n) # {} /\ Outstanding(n) = {})
            ~> (\/ SpawnedInTick(n) # {}
                \/ ~InLoop
                \/ ~RequiredNow(n)
                \/ Len(procs) >= MaxSpawns)

\* the bot died twice and was requested a third time
C12_Witness ==
    /\ InLoop
    /\ Cardinality(Died("bot")) = 2
    /\ SpawnedInTick("bot") # {}
    /\ procs[Len(procs)].name = "bot"
    /\ tickBase >= 3

====
